---- MODULE Spec2Model ----
(***************************************************************************)
(* A model of the cmos crate (src/src/lib.rs): the CMOS register access    *)
(* over the address/data port pair (read, write, read_all, write_all,      *)
(* get_update_in_progress_flag), the RTC read algorithm read_rtc with its  *)
(* capture loop, encoding conversion and year reconstruction,              *)
(* wait_for_update_then_read_rtc, and the RTCDateTime value (is_valid,     *)
(* from_tuple, as_tuple, days_by_month, cmp, MIN, MAX).                    *)
(*                                                                         *)
(* The hardware clock is a process of its own: it raises the               *)
(* update-in-progress flag, rewrites the time registers one at a time and  *)
(* clears the flag, interleaved with every port transfer of the driver.    *)
(*                                                                         *)
(* The history variables flag_seen, nxfer and log record the port          *)
(* transfers the driver makes; no action of the driver reads them.         *)
(***************************************************************************)
EXTENDS Integers, Sequences, FiniteSets, TLC

VARIABLES
    regs,             \* the chip's registers behind the data port
    addr,             \* the register selected by the last address-port write
    tick,             \* how many clock updates the hardware has completed
    start,            \* the clock value the chip held before its first update
    op,               \* the public method of CMOS that is running, "none" before a call
    reg,              \* the argument reg of read and write
    val,              \* the argument val of write
    i,                \* the loop variable of read_all and write_all
    input,            \* the argument input of write_all (element k of the array at index k + 1)
    output,           \* the argument output of read_all (element k of the array at index k + 1)
    ret,              \* << >>, or << the byte read or get_update_in_progress_flag returned >>
    flag_seen,        \* history: a poll in this read_rtc call found the update-in-progress bit set
    nxfer,            \* history: data-port transfers per register in this call (counted up to MaxCount)
    log,              \* history: the port transfers of the latest register access
    pc,               \* the driver's position in the running method
    io,               \* position inside read(): "addr" before the address write, "data" before the data read
    stabilizing,      \* FALSE in the read_into_rtc call of line 171, TRUE in the one of line 195
    century_handler,  \* the argument of read_rtc
    rtc_time,         \* the local rtc_time of read_rtc
    last,             \* last_second .. last_year
    century,          \* the local century (u8)
    last_century,     \* the local last_century
    register_b,       \* the local register_b
    datetime,         \* an RTCDateTime value a caller builds from six fields
    valid,            \* << >>, or << the result of datetime.is_valid() >>
    option,           \* << >>, or << the result of from_tuple on the six fields >>
    tuple,            \* << >>, or << the result of as_tuple on the value from_tuple returned >>
    ordering          \* << >>, or << MIN.cmp(&datetime), datetime.cmp(&MAX) >>

vars == << regs, addr, tick, start, op, reg, val, i, input, output, ret,
           flag_seen, nxfer, log,
           pc, io, stabilizing, century_handler, rtc_time, last,
           century, last_century, register_b,
           datetime, valid, option, tuple, ordering >>

hwVars == << regs, addr, tick, start >>
portVars == << reg, val, i, input, output, ret >>
callVars == << op, reg, val, i, input, output, ret >>
ghostVars == << flag_seen, nxfer, log >>
drvVars == << pc, io, stabilizing, century_handler, rtc_time, last,
              century, last_century, register_b >>
dtVars == << datetime, valid, option, tuple, ordering >>

----------------------------------------------------------------------------
(* Bounds of the model *)

\* the hardware clock performs at most this many updates
MaxTick == 2
\* the data-port transfers of one register are counted up to this many
MaxCount == 2
\* the largest month, day, and hour/minute/second excess handed to the RTCDateTime methods
MaxMonth == 13
MaxDay == 32
\* the largest decoded two-digit value drawn for the conversions
MaxTwoDigit == 99

----------------------------------------------------------------------------
(* Bytes and the bitwise operators of u8 / usize *)

Byte == 0..255

RECURSIVE BitAnd(_, _)
BitAnd(a, b) ==
    IF a = 0 \/ b = 0 THEN 0
    ELSE (a % 2) * (b % 2) + 2 * BitAnd(a \div 2, b \div 2)

RECURSIVE BitOr(_, _)
BitOr(a, b) ==
    IF a = 0 THEN b
    ELSE IF b = 0 THEN a
    ELSE (IF (a % 2) + (b % 2) > 0 THEN 1 ELSE 0) + 2 * BitOr(a \div 2, b \div 2)

----------------------------------------------------------------------------
(* RTCDateTime *)

RTCDateTime(y, mo, d, h, mi, s) ==
    [year |-> y, month |-> mo, day |-> d, hour |-> h, minute |-> mi, second |-> s]

None == << "None" >>
Some(d) == << "Some", d >>

days_by_month(year, month) ==
    IF month \in {1, 3, 5, 7, 8, 10, 12} THEN 31
    ELSE IF month \in {4, 6, 9, 11} THEN 30
    ELSE IF month = 2
         THEN (IF (year % 4 = 0 /\ year % 100 # 0) \/ year % 400 = 0 THEN 29 ELSE 28)
    ELSE 0

is_valid(d) ==
    /\ d.month < 13
    /\ d.hour < 24
    /\ d.minute < 60
    /\ d.second < 60
    /\ d.day < days_by_month(d.year, d.month)

from_tuple(t) ==
    LET d == RTCDateTime(t[1], t[2], t[3], t[4], t[5], t[6])
    IN  IF is_valid(d) THEN Some(d) ELSE None

as_tuple(d) == << d.year, d.month, d.day, d.hour, d.minute, d.second >>

\* usize::MAX, for a usize as wide as the integers of the model checker
usize_MAX == 2147483647

MAX == RTCDateTime(usize_MAX, 12, 31, 23, 59, 59)
MIN == RTCDateTime(0, 1, 1, 0, 0, 0)

\* Ord::cmp: the tuples of the six fields compared element by element
cmp(self, other) ==
    LET a == as_tuple(self)
        b == as_tuple(other)
        diff == {k \in 1..6 : a[k] # b[k]}
    IN  IF diff = {} THEN "Equal"
        ELSE LET k == CHOOSE j \in diff : \A n \in diff : j <= n
             IN  IF a[k] < b[k] THEN "Less" ELSE "Greater"

----------------------------------------------------------------------------
(* The chip: register numbers and flag bits used by the driver *)

RegSecond == 0
RegMinute == 2
RegHour == 4
RegDay == 7
RegMonth == 8
RegYear == 9
RegStatusA == 10
RegStatusB == 11
UpdateInProgress == 128
BinaryMode == 4
Mode24 == 2
PmFlag == 128

\* the century register of the crate's example, CenturyRegister(0xA5)
CenturyReg == 165

\* the low bits of status register A (divider and rate selection), never changed
StatusALow == 38

CenturyRegister(r) == [kind |-> "CenturyRegister", arg |-> r]
CurrentYear(y) == [kind |-> "CurrentYear", arg |-> y]

\* the format flags of status register B: BCD/binary and 12/24 hour
Modes == {0, Mode24, BinaryMode, BinaryMode + Mode24}

\* the reference year of the crate's example, CurrentYear(2019)
RefYear == 2019

\* the century handlers read_rtc is called with
Handlers == {CenturyRegister(CenturyReg), CurrentYear(RefYear)}

----------------------------------------------------------------------------
(* The hardware clock: what the chip stores for a clock value *)

\* a value v in 0..99 as a BCD byte
ToBcd(v) == (v \div 10) * 16 + (v % 10)

\* a value as the chip stores it under format flags b
Stored(v, b) == IF BitAnd(b, BinaryMode) # 0 THEN v ELSE ToBcd(v)

\* an hour of the day (0..23) as the chip stores it under format flags b
StoredHour(h, b) ==
    IF BitAnd(b, Mode24) # 0 THEN Stored(h, b)
    ELSE Stored(IF h % 12 = 0 THEN 12 ELSE h % 12, b) + (IF h >= 12 THEN PmFlag ELSE 0)

Clock(c, y, mo, d, h, mi, s) ==
    [century |-> c, year |-> y, month |-> mo, day |-> d, hour |-> h, minute |-> mi, second |-> s]

\* the clock values the runs start from: two seconds before a midnight, and the
\* last second of a century
Start2019 == Clock(20, 19, 12, 30, 23, 59, 58)
Start1999 == Clock(19, 99, 12, 31, 23, 59, 59)

\* the clock value after t updates: the start value and the seconds after it
ClockAt(t) ==
    IF start = Start1999
    THEN (IF t = 0 THEN Start1999 ELSE Clock(20, 0, 1, 1, 0, 0, t - 1))
    ELSE IF 58 + t < 60 THEN Clock(20, 19, 12, 30, 23, 59, 58 + t)
    ELSE Clock(20, 19, 12, 31, 0, 0, (58 + t) - 60)

\* the registers the clock writes, and what each holds for clock value k
ClockRegs == {RegSecond, RegMinute, RegHour, RegDay, RegMonth, RegYear, CenturyReg}
TimeRegs == {RegSecond, RegMinute, RegHour, RegDay, RegMonth, RegYear}

RegValue(r, k, b) ==
    IF r = RegSecond THEN Stored(k.second, b)
    ELSE IF r = RegMinute THEN Stored(k.minute, b)
    ELSE IF r = RegHour THEN StoredHour(k.hour, b)
    ELSE IF r = RegDay THEN Stored(k.day, b)
    ELSE IF r = RegMonth THEN Stored(k.month, b)
    ELSE IF r = RegYear THEN Stored(k.year, b)
    ELSE Stored(k.century, b)

\* the registers of the bank that read_rtc reads
ChipRegs == ClockRegs \cup {RegStatusA, RegStatusB}

\* the register bank holding clock value k under format flags b, no update in progress
Bank(k, b) ==
    [r \in ChipRegs |->
        IF r \in ClockRegs THEN RegValue(r, k, b)
        ELSE IF r = RegStatusA THEN StatusALow
        ELSE b]

\* the six time fields as a raw snapshot of the registers holding clock value k
RawOf(k, b) ==
    RTCDateTime(RegValue(RegYear, k, b), RegValue(RegMonth, k, b), RegValue(RegDay, k, b),
                RegValue(RegHour, k, b), RegValue(RegMinute, k, b), RegValue(RegSecond, k, b))

Updating == BitAnd(regs[RegStatusA], UpdateInProgress) # 0

HwBeginUpdate ==
    /\ tick < MaxTick
    /\ ~Updating
    /\ regs' = [regs EXCEPT ![RegStatusA] = BitOr(@, UpdateInProgress)]
    /\ UNCHANGED << addr, tick, start >>
    /\ UNCHANGED callVars
    /\ UNCHANGED ghostVars
    /\ UNCHANGED drvVars
    /\ UNCHANGED dtVars

HwUpdateRegister ==
    /\ Updating
    /\ \E r \in ClockRegs :
          /\ regs[r] # RegValue(r, ClockAt(tick + 1), regs[RegStatusB])
          /\ regs' = [regs EXCEPT ![r] = RegValue(r, ClockAt(tick + 1), regs[RegStatusB])]
    /\ UNCHANGED << addr, tick, start >>
    /\ UNCHANGED callVars
    /\ UNCHANGED ghostVars
    /\ UNCHANGED drvVars
    /\ UNCHANGED dtVars

HwEndUpdate ==
    /\ Updating
    /\ \A r \in ClockRegs : regs[r] = RegValue(r, ClockAt(tick + 1), regs[RegStatusB])
    /\ regs' = [regs EXCEPT ![RegStatusA] = StatusALow]
    /\ tick' = tick + 1
    /\ UNCHANGED << addr, start >>
    /\ UNCHANGED callVars
    /\ UNCHANGED ghostVars
    /\ UNCHANGED drvVars
    /\ UNCHANGED dtVars

----------------------------------------------------------------------------
(* The driver: read(), get_update_in_progress_flag(), read_into_rtc() and    *)
(* read_rtc(), one step per port transfer                                    *)

\* the positions of read_rtc at which it calls read(), and the register read there
TimeFields == {"second", "minute", "hour", "day", "month", "year"}
ReadPcs == {"flag", "century", "register_b"} \cup TimeFields

\* the positions of the other methods at which a register is accessed: the poll of
\* wait_for_update_then_read_rtc, the bodies of read, write and
\* get_update_in_progress_flag, and the loop bodies of read_all and write_all
PortPcs == {"wait", "read", "write", "get_flag", "read_all", "write_all"}

\* a mutation of RegAt: read_into_rtc polls register 0x0B for the flag
RegAt_poll_b(p) ==
    IF p \in {"wait", "get_flag"} THEN RegStatusA
    ELSE IF p \in {"read", "write"} THEN reg
    ELSE IF p \in {"read_all", "write_all"} THEN i
    ELSE IF p = "second" THEN RegSecond
    ELSE IF p = "minute" THEN RegMinute
    ELSE IF p = "hour" THEN RegHour
    ELSE IF p = "day" THEN RegDay
    ELSE IF p = "month" THEN RegMonth
    ELSE IF p = "year" THEN RegYear
    ELSE IF p = "century" THEN century_handler.arg
    ELSE RegStatusB

RegAt(p) ==
    IF p \in {"flag", "wait", "get_flag"} THEN RegStatusA
    ELSE IF p \in {"read", "write"} THEN reg
    ELSE IF p \in {"read_all", "write_all"} THEN i
    ELSE IF p = "second" THEN RegSecond
    ELSE IF p = "minute" THEN RegMinute
    ELSE IF p = "hour" THEN RegHour
    ELSE IF p = "day" THEN RegDay
    ELSE IF p = "month" THEN RegMonth
    ELSE IF p = "year" THEN RegYear
    ELSE IF p = "century" THEN century_handler.arg
    ELSE RegStatusB

\* the order of the reads in the body of read_into_rtc's loop
AfterField(p) ==
    IF p = "second" THEN "minute"
    ELSE IF p = "minute" THEN "hour"
    ELSE IF p = "hour" THEN "day"
    ELSE IF p = "day" THEN "month"
    ELSE IF p = "month" THEN "year"
    ELSE "flag"

ZeroTime == RTCDateTime(0, 0, 0, 0, 0, 0)

\* the port transfers as the history records them
AddressWrite(r) == [port |-> "address", dir |-> "write", val |-> r]
DataRead(v) == [port |-> "data", dir |-> "read", val |-> v]
DataWrite(v) == [port |-> "data", dir |-> "write", val |-> v]

\* no data-port transfer yet, and one more for register r
NoTransfers == [r \in DOMAIN regs |-> 0]
Counted(n, r) == [n EXCEPT ![r] = IF @ < MaxCount THEN @ + 1 ELSE @]

\* self.data_port.read(): the byte of the selected register, recorded in the history
DataPortRead ==
    /\ log' = Append(log, DataRead(regs[addr]))
    /\ nxfer' = Counted(nxfer, addr)

\* read_rtc is entered: rtc_time is zeroed and read_into_rtc is called
CallReadRtc ==
    /\ pc = "idle"
    /\ op' = "read_rtc"
    /\ \E h \in Handlers : century_handler' = h
    /\ rtc_time' = ZeroTime
    /\ century' = 0
    /\ stabilizing' = FALSE
    /\ pc' = "flag"
    /\ io' = "addr"
    /\ flag_seen' = FALSE
    /\ nxfer' = NoTransfers
    /\ log' = << >>
    /\ UNCHANGED portVars
    /\ UNCHANGED << last, last_century, register_b >>
    /\ UNCHANGED hwVars
    /\ UNCHANGED dtVars

\* a mutation of AddressPortWrite: the access goes on to its data-port transfer
\* without a write to the address port
AddressPortWrite_skipped ==
    /\ pc \in ReadPcs \cup PortPcs
    /\ io = "addr"
    /\ io' = "data"
    /\ UNCHANGED << addr, log >>
    /\ UNCHANGED << flag_seen, nxfer >>
    /\ UNCHANGED callVars
    /\ UNCHANGED << regs, tick, start >>
    /\ UNCHANGED << pc, stabilizing, century_handler, rtc_time, last, century,
                    last_century, register_b >>
    /\ UNCHANGED dtVars

\* self.address_port.write(reg), the first transfer of every register access
AddressPortWrite ==
    /\ pc \in ReadPcs \cup PortPcs
    /\ io = "addr"
    /\ addr' = RegAt(pc)
    /\ io' = "data"
    /\ log' = << AddressWrite(RegAt(pc)) >>
    /\ UNCHANGED << flag_seen, nxfer >>
    /\ UNCHANGED callVars
    /\ UNCHANGED << regs, tick, start >>
    /\ UNCHANGED << pc, stabilizing, century_handler, rtc_time, last, century,
                    last_century, register_b >>
    /\ UNCHANGED dtVars

\* a mutation of AfterReadIntoRtc: the century register is read after every capture
AfterReadIntoRtc_recapture ==
    IF century_handler.kind = "CenturyRegister" THEN "century"
    ELSE IF stabilizing THEN "compare"
    ELSE "save"

\* where read_rtc goes on when read_into_rtc returns
AfterReadIntoRtc ==
    IF stabilizing THEN "compare"
    ELSE IF century_handler.kind = "CenturyRegister" THEN "century"
    ELSE "save"

\* read_into_rtc: the loop condition, get_update_in_progress_flag() != 0
GetUpdateInProgressFlag ==
    /\ pc = "flag"
    /\ io = "data"
    /\ pc' = IF BitAnd(regs[addr], UpdateInProgress) # 0 THEN "second" ELSE AfterReadIntoRtc
    /\ io' = "addr"
    /\ DataPortRead
    /\ flag_seen' = (flag_seen \/ BitAnd(regs[addr], UpdateInProgress) # 0)
    /\ UNCHANGED callVars
    /\ UNCHANGED << stabilizing, century_handler, rtc_time, last, century,
                    last_century, register_b >>
    /\ UNCHANGED hwVars
    /\ UNCHANGED dtVars

\* read_into_rtc: one read of the loop body, rtc_time.<field> = self.read(..)
ReadTimeRegister ==
    /\ pc \in TimeFields
    /\ io = "data"
    /\ rtc_time' = [rtc_time EXCEPT ![pc] = regs[addr]]
    /\ pc' = AfterField(pc)
    /\ io' = "addr"
    /\ DataPortRead
    /\ UNCHANGED flag_seen
    /\ UNCHANGED callVars
    /\ UNCHANGED << stabilizing, century_handler, last, century, last_century, register_b >>
    /\ UNCHANGED hwVars
    /\ UNCHANGED dtVars

\* century = self.read(century_reg)
ReadCentury ==
    /\ pc = "century"
    /\ io = "data"
    /\ century' = regs[addr]
    /\ pc' = "save"
    /\ io' = "addr"
    /\ DataPortRead
    /\ UNCHANGED flag_seen
    /\ UNCHANGED callVars
    /\ UNCHANGED << stabilizing, century_handler, rtc_time, last, last_century, register_b >>
    /\ UNCHANGED hwVars
    /\ UNCHANGED dtVars

\* the top of the loop: last_* = rtc_time.*, last_century = century, then read_into_rtc
SaveLast ==
    /\ pc = "save"
    /\ last' = rtc_time
    /\ last_century' = century
    /\ stabilizing' = TRUE
    /\ pc' = "flag"
    /\ io' = "addr"
    /\ UNCHANGED callVars
    /\ UNCHANGED ghostVars
    /\ UNCHANGED << century_handler, rtc_time, century, register_b >>
    /\ UNCHANGED hwVars
    /\ UNCHANGED dtVars

\* the condition of the if that ends the loop
Differs ==
    \/ last.second # rtc_time.second
    \/ last.minute # rtc_time.minute
    \/ last.hour # rtc_time.hour
    \/ last.day # rtc_time.day
    \/ last.month # rtc_time.month
    \/ last.year # rtc_time.year
    \/ last_century # century

\* the bottom of the loop: if <any field differs> { break; }
Compare ==
    /\ pc = "compare"
    /\ pc' = IF Differs THEN "register_b" ELSE "save"
    /\ UNCHANGED callVars
    /\ UNCHANGED ghostVars
    /\ UNCHANGED << io, stabilizing, century_handler, rtc_time, last, century,
                    last_century, register_b >>
    /\ UNCHANGED hwVars
    /\ UNCHANGED dtVars

\* let register_b = self.read(0x0B)
ReadRegisterB ==
    /\ pc = "register_b"
    /\ io = "data"
    /\ register_b' = regs[addr]
    /\ pc' = "bcd"
    /\ io' = "addr"
    /\ DataPortRead
    /\ UNCHANGED flag_seen
    /\ UNCHANGED callVars
    /\ UNCHANGED << stabilizing, century_handler, rtc_time, last, century, last_century >>
    /\ UNCHANGED hwVars
    /\ UNCHANGED dtVars

----------------------------------------------------------------------------
(* read_rtc: conversion of the captured values *)

\* a mutation of bcd_to_binary: the tens digit weighted 16, as in a plain hex reading
bcd_to_binary_hex(x) == BitAnd(x, 15) + ((x \div 16) * 16)

\* (x & 0x0F) + ((x / 16) * 10); at most 15 + 15 * 10 = 165 for a u8, so it never overflows
bcd_to_binary(x) == BitAnd(x, 15) + ((x \div 16) * 10)

\* a mutation of bcd_hour_to_binary: the hour converted like the other fields, bit 0x80 included
bcd_hour_to_binary_whole(x) == BitAnd(x, 15) + ((x \div 16) * 10)

\* ((hour & 0x0F) + (((hour & 0x70) / 16) * 10)) | (hour & 0x80)
bcd_hour_to_binary(x) ==
    BitOr(BitAnd(x, 15) + ((BitAnd(x, 112) \div 16) * 10), BitAnd(x, PmFlag))

\* ((hour & 0x7F) + 12) % 24
to_24_hour(h) == (BitAnd(h, 127) + 12) % 24

\* a mutation of current_year_full: the century is advanced also when the year equals the reference
current_year_full_le(y, current_year) ==
    LET t == y + (current_year \div 100) * 100
    IN  IF t <= current_year THEN t + 100 ELSE t

\* a mutation of current_year_full: the century is never advanced
current_year_full_base(y, current_year) == y + (current_year \div 100) * 100

\* year += (current_year / 100) * 100; if year < current_year { year += 100 }
current_year_full(y, current_year) ==
    LET t == y + (current_year \div 100) * 100
    IN  IF t < current_year THEN t + 100 ELSE t

\* if (register_b & 0x04) == 0 { <BCD to binary> }
ConvertBcd ==
    /\ pc = "bcd"
    /\ IF BitAnd(register_b, BinaryMode) = 0
       THEN /\ rtc_time' = RTCDateTime(bcd_to_binary(rtc_time.year),
                                       bcd_to_binary(rtc_time.month),
                                       bcd_to_binary(rtc_time.day),
                                       bcd_hour_to_binary(rtc_time.hour),
                                       bcd_to_binary(rtc_time.minute),
                                       bcd_to_binary(rtc_time.second))
            /\ century' = IF century_handler.kind = "CenturyRegister"
                          THEN bcd_to_binary(century) ELSE century
       ELSE UNCHANGED << rtc_time, century >>
    /\ pc' = "hour12"
    /\ UNCHANGED callVars
    /\ UNCHANGED ghostVars
    /\ UNCHANGED << io, stabilizing, century_handler, last, last_century, register_b >>
    /\ UNCHANGED hwVars
    /\ UNCHANGED dtVars

\* if ((register_b & 0x02) == 0) && ((rtc_time.hour & 0x80) != 0) { <12 hour to 24 hour> }
Convert12Hour ==
    /\ pc = "hour12"
    /\ rtc_time' = IF BitAnd(register_b, Mode24) = 0 /\ BitAnd(rtc_time.hour, PmFlag) # 0
                   THEN [rtc_time EXCEPT !.hour = to_24_hour(rtc_time.hour)]
                   ELSE rtc_time
    /\ pc' = "fullyear"
    /\ UNCHANGED callVars
    /\ UNCHANGED ghostVars
    /\ UNCHANGED << io, stabilizing, century_handler, last, century, last_century, register_b >>
    /\ UNCHANGED hwVars
    /\ UNCHANGED dtVars

\* CurrentYear(current_year) arm of the match, and the return of rtc_time
FullYearCurrent ==
    /\ pc = "fullyear"
    /\ century_handler.kind = "CurrentYear"
    /\ rtc_time' = [rtc_time EXCEPT !.year = current_year_full(rtc_time.year, century_handler.arg)]
    /\ pc' = "done"
    /\ UNCHANGED callVars
    /\ UNCHANGED ghostVars
    /\ UNCHANGED << io, stabilizing, century_handler, last, century, last_century, register_b >>
    /\ UNCHANGED hwVars
    /\ UNCHANGED dtVars

\* CenturyRegister(_) arm: rtc_time.year += (century * 100) as usize, and the return
\* of rtc_time. century is a u8 and so is the product: it fits when century <= 2;
\* beyond that the multiplication panics in a build with overflow checks and wraps
\* modulo 256 in a build without them.
FullYearCentury ==
    /\ pc = "fullyear"
    /\ century_handler.kind = "CenturyRegister"
    /\ IF century * 100 <= 255
       THEN /\ rtc_time' = [rtc_time EXCEPT !.year = rtc_time.year + century * 100]
            /\ pc' = "done"
       ELSE \E checks \in BOOLEAN :
               IF checks
               THEN /\ pc' = "panicked"
                    /\ UNCHANGED rtc_time
               ELSE /\ rtc_time' = [rtc_time EXCEPT
                                      !.year = rtc_time.year + ((century * 100) % 256)]
                    /\ pc' = "done"
    /\ UNCHANGED callVars
    /\ UNCHANGED ghostVars
    /\ UNCHANGED << io, stabilizing, century_handler, last, century, last_century, register_b >>
    /\ UNCHANGED hwVars
    /\ UNCHANGED dtVars

----------------------------------------------------------------------------
(* wait_for_update_then_read_rtc *)

\* a mutation of StillWaiting: the loop goes on while the flag is set
StillWaiting_while_set(flag) == flag # 0

\* while self.get_update_in_progress_flag() == 0 {}: the condition of the loop
StillWaiting(flag) == flag = 0

\* wait_for_update_then_read_rtc is entered
CallWaitForUpdateThenReadRtc ==
    /\ pc = "idle"
    /\ op' = "wait_for_update_then_read_rtc"
    /\ \E h \in Handlers : century_handler' = h
    /\ pc' = "wait"
    /\ io' = "addr"
    /\ flag_seen' = FALSE
    /\ nxfer' = NoTransfers
    /\ log' = << >>
    /\ UNCHANGED portVars
    /\ UNCHANGED << stabilizing, rtc_time, last, century, last_century, register_b >>
    /\ UNCHANGED hwVars
    /\ UNCHANGED dtVars

\* one evaluation of the loop condition; when the loop ends read_rtc is entered:
\* rtc_time is zeroed and read_into_rtc is called
WaitForUpdate ==
    /\ pc = "wait"
    /\ io = "data"
    /\ log' = Append(log, DataRead(regs[addr]))
    /\ IF StillWaiting(BitAnd(regs[addr], UpdateInProgress))
       THEN /\ pc' = "wait"
            /\ nxfer' = Counted(nxfer, addr)
            /\ UNCHANGED << stabilizing, rtc_time, century >>
       ELSE /\ pc' = "flag"
            /\ nxfer' = NoTransfers
            /\ rtc_time' = ZeroTime
            /\ century' = 0
            /\ stabilizing' = FALSE
    /\ io' = "addr"
    /\ UNCHANGED flag_seen
    /\ UNCHANGED callVars
    /\ UNCHANGED << century_handler, last, last_century, register_b >>
    /\ UNCHANGED hwVars
    /\ UNCHANGED dtVars

----------------------------------------------------------------------------
(* read, write, get_update_in_progress_flag, read_all and write_all *)

\* the length of the arrays of read_all and write_all, and the end of their loops
NumRegs == 128

\* the locals of read_rtc, which these methods do not have
rtcVars == << stabilizing, century_handler, rtc_time, last, century, last_century, register_b >>

\* the registers callers pass to read and write, and the bytes they pass to write
ArgRegs == {RegHour, NumRegs - 1, CenturyReg}
ArgVals == {8, 255}

\* the arrays callers pass: all zero, and element k holding k
ZeroArray == [k \in 1..NumRegs |-> 0]
RampArray == [k \in 1..NumRegs |-> k - 1]
Inputs == {ZeroArray, RampArray}

\* a method is entered: the history starts again
Enter(name, p) ==
    /\ pc = "idle"
    /\ op' = name
    /\ pc' = p
    /\ io' = "addr"
    /\ flag_seen' = FALSE
    /\ nxfer' = NoTransfers
    /\ log' = << >>
    /\ UNCHANGED rtcVars
    /\ UNCHANGED hwVars
    /\ UNCHANGED dtVars

\* a mutation of DataPortWrite: the byte lands in every register of the bank
DataPortWrite_everywhere(v) ==
    /\ regs' = [r \in DOMAIN regs |-> v]
    /\ log' = Append(log, DataWrite(v))
    /\ nxfer' = Counted(nxfer, addr)

\* self.data_port.write(v): the chip stores v in the selected register
DataPortWrite(v) ==
    /\ regs' = [regs EXCEPT ![addr] = v]
    /\ log' = Append(log, DataWrite(v))
    /\ nxfer' = Counted(nxfer, addr)

\* read(reg) is entered
CallRead ==
    /\ Enter("read", "read")
    /\ \E r \in ArgRegs : reg' = r
    /\ ret' = << >>
    /\ UNCHANGED << val, i, input, output >>

\* read: self.data_port.read(), returned
ReadReturn ==
    /\ pc = "read"
    /\ io = "data"
    /\ DataPortRead
    /\ ret' = << regs[addr] >>
    /\ pc' = "done"
    /\ io' = "addr"
    /\ UNCHANGED << op, reg, val, i, input, output >>
    /\ UNCHANGED flag_seen
    /\ UNCHANGED rtcVars
    /\ UNCHANGED hwVars
    /\ UNCHANGED dtVars

\* write(reg, val) is entered
CallWrite ==
    /\ Enter("write", "write")
    /\ \E r \in ArgRegs : reg' = r
    /\ \E v \in ArgVals : val' = v
    /\ ret' = << >>
    /\ UNCHANGED << i, input, output >>

\* write: self.data_port.write(val), and the return
WriteReturn ==
    /\ pc = "write"
    /\ io = "data"
    /\ DataPortWrite(val)
    /\ pc' = "done"
    /\ io' = "addr"
    /\ UNCHANGED callVars
    /\ UNCHANGED flag_seen
    /\ UNCHANGED rtcVars
    /\ UNCHANGED << addr, tick, start >>
    /\ UNCHANGED dtVars

\* get_update_in_progress_flag() is entered
CallGetUpdateInProgressFlag ==
    /\ Enter("get_update_in_progress_flag", "get_flag")
    /\ ret' = << >>
    /\ UNCHANGED << reg, val, i, input, output >>

\* get_update_in_progress_flag: self.read(0x0A) & 0x80, returned
ReturnUpdateInProgressFlag ==
    /\ pc = "get_flag"
    /\ io = "data"
    /\ DataPortRead
    /\ ret' = << BitAnd(regs[addr], UpdateInProgress) >>
    /\ pc' = "done"
    /\ io' = "addr"
    /\ UNCHANGED << op, reg, val, i, input, output >>
    /\ UNCHANGED flag_seen
    /\ UNCHANGED rtcVars
    /\ UNCHANGED hwVars
    /\ UNCHANGED dtVars

\* read_all(output) is entered, with the zeroed array of the crate's example: for i in 0..128
CallReadAll ==
    /\ Enter("read_all", "read_all")
    /\ output' = ZeroArray
    /\ i' = 0
    /\ ret' = << >>
    /\ UNCHANGED << reg, val, input >>

\* a mutation of ReadAllStore: every byte is stored in output[0]
ReadAllStore_first ==
    /\ pc = "read_all"
    /\ io = "data"
    /\ DataPortRead
    /\ output' = [output EXCEPT ![1] = regs[addr]]
    /\ i' = i + 1
    /\ pc' = IF i + 1 < NumRegs THEN "read_all" ELSE "done"
    /\ io' = "addr"
    /\ UNCHANGED << op, reg, val, input, ret >>
    /\ UNCHANGED flag_seen
    /\ UNCHANGED rtcVars
    /\ UNCHANGED hwVars
    /\ UNCHANGED dtVars

\* read_all: output[i as usize] = self.data_port.read(), and the next i
ReadAllStore ==
    /\ pc = "read_all"
    /\ io = "data"
    /\ DataPortRead
    /\ output' = [output EXCEPT ![i + 1] = regs[addr]]
    /\ i' = i + 1
    /\ pc' = IF i + 1 < NumRegs THEN "read_all" ELSE "done"
    /\ io' = "addr"
    /\ UNCHANGED << op, reg, val, input, ret >>
    /\ UNCHANGED flag_seen
    /\ UNCHANGED rtcVars
    /\ UNCHANGED hwVars
    /\ UNCHANGED dtVars

\* write_all(input) is entered: for i in 0..128
CallWriteAll ==
    /\ Enter("write_all", "write_all")
    /\ \E a \in Inputs : input' = a
    /\ i' = 0
    /\ ret' = << >>
    /\ UNCHANGED << reg, val, output >>

\* write_all: self.data_port.write(input[i as usize]), and the next i
WriteAllStore ==
    /\ pc = "write_all"
    /\ io = "data"
    /\ DataPortWrite(input[i + 1])
    /\ i' = i + 1
    /\ pc' = IF i + 1 < NumRegs THEN "write_all" ELSE "done"
    /\ io' = "addr"
    /\ UNCHANGED << op, reg, val, input, output, ret >>
    /\ UNCHANGED flag_seen
    /\ UNCHANGED rtcVars
    /\ UNCHANGED << addr, tick, start >>
    /\ UNCHANGED dtVars

----------------------------------------------------------------------------
(* The clock and one call of read_rtc *)

\* no RTCDateTime method has been called: the results are empty
NoDateTime ==
    /\ datetime = ZeroTime
    /\ valid = << >>
    /\ option = << >>
    /\ tuple = << >>
    /\ ordering = << >>

\* no method of CMOS has been called
NoCall ==
    /\ op = "none"
    /\ reg = 0
    /\ val = 0
    /\ i = 0
    /\ input = << >>
    /\ output = << >>
    /\ ret = << >>
    /\ flag_seen = FALSE
    /\ nxfer = [r \in DOMAIN regs |-> 0]
    /\ log = << >>

Init ==
    /\ start = Start2019
    /\ \E b \in Modes : regs = Bank(ClockAt(0), b)
    /\ addr = 0
    /\ tick = 0
    /\ NoCall
    /\ pc = "idle"
    /\ io = "addr"
    /\ stabilizing = FALSE
    /\ century_handler = CurrentYear(RefYear)
    /\ rtc_time = ZeroTime
    /\ last = ZeroTime
    /\ century = 0
    /\ last_century = 0
    /\ register_b = 0
    /\ NoDateTime

Hardware == HwBeginUpdate \/ HwUpdateRegister \/ HwEndUpdate

Capture ==
    \/ CallReadRtc
    \/ AddressPortWrite
    \/ GetUpdateInProgressFlag
    \/ ReadTimeRegister
    \/ ReadCentury
    \/ SaveLast
    \/ Compare
    \/ ReadRegisterB

Wait == CallWaitForUpdateThenReadRtc \/ WaitForUpdate

Convert ==
    \/ ConvertBcd
    \/ Convert12Hour
    \/ FullYearCurrent
    \/ FullYearCentury

Next == Hardware \/ Capture \/ Wait \/ Convert

Spec == Init /\ [][Next]_vars

----------------------------------------------------------------------------
(* The clock at the end of a century and one call of read_rtc or            *)
(* wait_for_update_then_read_rtc: the first update rewrites all seven       *)
(* clock registers, the century register among them                         *)

InitCentury ==
    /\ start = Start1999
    /\ regs = Bank(ClockAt(0), Mode24)
    /\ addr = 0
    /\ tick = 0
    /\ NoCall
    /\ pc = "idle"
    /\ io = "addr"
    /\ stabilizing = FALSE
    /\ century_handler = CurrentYear(RefYear)
    /\ rtc_time = ZeroTime
    /\ last = ZeroTime
    /\ century = 0
    /\ last_century = 0
    /\ register_b = 0
    /\ NoDateTime

SpecCentury == InitCentury /\ [][Next]_vars

----------------------------------------------------------------------------
(* The clock and one call of any method of CMOS, on the bank of 128         *)
(* registers and the century register                                       *)

\* the registers of the bank
PortRegs == (0..(NumRegs - 1)) \cup {CenturyReg}

\* the bank holding the start value of the clock under format flags b; the registers
\* the clock does not use hold the complement of their number
PortBank(b) ==
    [r \in PortRegs |-> IF r \in ChipRegs THEN Bank(ClockAt(0), b)[r] ELSE 255 - r]

InitPort ==
    /\ start = Start2019
    /\ regs = PortBank(Mode24)
    /\ addr = 0
    /\ tick = 0
    /\ NoCall
    /\ pc = "idle"
    /\ io = "addr"
    /\ stabilizing = FALSE
    /\ century_handler = CurrentYear(RefYear)
    /\ rtc_time = ZeroTime
    /\ last = ZeroTime
    /\ century = 0
    /\ last_century = 0
    /\ register_b = 0
    /\ NoDateTime

Access ==
    \/ CallRead
    \/ ReadReturn
    \/ CallWrite
    \/ WriteReturn
    \/ CallGetUpdateInProgressFlag
    \/ ReturnUpdateInProgressFlag
    \/ CallReadAll
    \/ ReadAllStore
    \/ CallWriteAll
    \/ WriteAllStore

NextPort == Hardware \/ Access \/ Capture \/ Wait \/ Convert

SpecPort == InitPort /\ [][NextPort]_vars

----------------------------------------------------------------------------
(* The conversion of read_rtc on its own: read_rtc has just left its loop   *)
(* with a capture of the registers, which the clock leaves alone from here  *)

\* the reference years handed to CurrentYear in the conversion runs
DecodeRefYears == {0, 99, 100, 1999, 2000, RefYear, 2099, 2100}

\* read_rtc right after the break of its loop, the capture being the content of bank
LoopLeft(bank, handler) ==
    /\ start = Start2019
    /\ regs = bank
    /\ addr = RegStatusA
    /\ tick = MaxTick
    /\ op = "read_rtc"
    /\ reg = 0
    /\ val = 0
    /\ i = 0
    /\ input = << >>
    /\ output = << >>
    /\ ret = << >>
    /\ flag_seen = TRUE
    /\ nxfer = [r \in DOMAIN bank |->
                   IF r \in TimeRegs \/ r = RegStatusA \/ (r = handler.arg /\ handler.kind = "CenturyRegister")
                   THEN 1 ELSE 0]
    /\ log = << AddressWrite(RegStatusA), DataRead(bank[RegStatusA]) >>
    /\ pc = "register_b"
    /\ io = "addr"
    /\ stabilizing = TRUE
    /\ century_handler = handler
    /\ rtc_time = RTCDateTime(bank[RegYear], bank[RegMonth], bank[RegDay],
                              bank[RegHour], bank[RegMinute], bank[RegSecond])
    /\ last = [rtc_time EXCEPT !.second = (rtc_time.second + 1) % 256]
    /\ century = IF handler.kind = "CenturyRegister" THEN bank[handler.arg] ELSE 0
    /\ last_century = century
    /\ register_b = 0
    /\ NoDateTime

\* every two-digit year with every century, under the century register strategy
InitYearCentury ==
    \E b \in Modes, y \in 0..MaxTwoDigit, c \in 0..MaxTwoDigit :
        LoopLeft(Bank(Clock(c, y, 12, 30, 23, 59, 58), b), CenturyRegister(CenturyReg))

\* every two-digit year with every reference year, under the current year strategy
InitYearCurrent ==
    \E b \in Modes, y \in 0..MaxTwoDigit, r \in DecodeRefYears :
        LoopLeft(Bank(Clock(20, y, 12, 30, 23, 59, 58), b), CurrentYear(r))

\* every hour of the day
InitHour ==
    \E b \in Modes, h \in 0..23, h0 \in Handlers :
        LoopLeft(Bank(Clock(20, 19, 12, 30, h, 59, 58), b), h0)

\* every byte in the hour register
InitRawHour ==
    \E b \in Modes, x \in Byte, h0 \in Handlers :
        LoopLeft([Bank(Clock(20, 19, 12, 30, 0, 59, 58), b) EXCEPT ![RegHour] = x], h0)

\* every byte in the other time registers and the century register
InitRawFields ==
    \E b \in Modes, x \in Byte, h0 \in Handlers :
        LoopLeft([r \in ChipRegs |->
                    IF r \in ClockRegs \ {RegHour} THEN x
                    ELSE Bank(Clock(20, 19, 12, 30, 23, 59, 58), b)[r]], h0)

InitDecode ==
    \/ InitYearCentury
    \/ InitYearCurrent
    \/ InitHour
    \/ InitRawHour
    \/ InitRawFields

NextDecode == AddressPortWrite \/ ReadRegisterB \/ Convert

SpecDecode == InitDecode /\ [][NextDecode]_vars

----------------------------------------------------------------------------
(* The RTCDateTime methods on values a caller builds *)

\* the years, hours, minutes and seconds the caller uses
DateYears == {0, 1900, 2000, 2023, 2024}
DateHours == {0, 23, 24}
DateMinutes == {59, 60}
DateSeconds == {59, 60}

InitDate ==
    /\ start = Start2019
    /\ regs = Bank(ClockAt(0), 0)
    /\ addr = 0
    /\ tick = 0
    /\ NoCall
    /\ pc = "idle"
    /\ io = "addr"
    /\ stabilizing = FALSE
    /\ century_handler = CurrentYear(RefYear)
    /\ rtc_time = ZeroTime
    /\ last = ZeroTime
    /\ century = 0
    /\ last_century = 0
    /\ register_b = 0
    /\ \/ \E y \in DateYears, mo \in 0..MaxMonth, d \in 0..MaxDay,
             h \in DateHours, mi \in DateMinutes, s \in DateSeconds :
             datetime = RTCDateTime(y, mo, d, h, mi, s)
       \/ datetime \in {MIN, MAX, RTCDateTime(0, 1, 0, 0, 0, 0)}
    /\ valid = << >>
    /\ option = << >>
    /\ tuple = << >>
    /\ ordering = << >>

\* datetime.is_valid()
CallIsValid ==
    /\ valid = << >>
    /\ valid' = << is_valid(datetime) >>
    /\ UNCHANGED << datetime, option, tuple, ordering >>
    /\ UNCHANGED hwVars
    /\ UNCHANGED callVars
    /\ UNCHANGED ghostVars
    /\ UNCHANGED drvVars

\* RTCDateTime::from_tuple(&(year, month, day, hour, minute, second))
CallFromTuple ==
    /\ option = << >>
    /\ option' = << from_tuple(<< datetime.year, datetime.month, datetime.day,
                                  datetime.hour, datetime.minute, datetime.second >>) >>
    /\ UNCHANGED << datetime, valid, tuple, ordering >>
    /\ UNCHANGED hwVars
    /\ UNCHANGED callVars
    /\ UNCHANGED ghostVars
    /\ UNCHANGED drvVars

\* d.as_tuple() on the d of a Some(d) that from_tuple returned
CallAsTuple ==
    /\ option # << >>
    /\ option[1] # None
    /\ tuple = << >>
    /\ tuple' = << as_tuple(option[1][2]) >>
    /\ UNCHANGED << datetime, valid, option, ordering >>
    /\ UNCHANGED hwVars
    /\ UNCHANGED callVars
    /\ UNCHANGED ghostVars
    /\ UNCHANGED drvVars

\* MIN.cmp(&datetime) and datetime.cmp(&MAX)
CallCmp ==
    /\ ordering = << >>
    /\ ordering' = << cmp(MIN, datetime), cmp(datetime, MAX) >>
    /\ UNCHANGED << datetime, valid, option, tuple >>
    /\ UNCHANGED hwVars
    /\ UNCHANGED callVars
    /\ UNCHANGED ghostVars
    /\ UNCHANGED drvVars

NextDate == CallIsValid \/ CallFromTuple \/ CallAsTuple \/ CallCmp

SpecDate == InitDate /\ [][NextDate]_vars

----------------------------------------------------------------------------
(* Properties of the capture and stabilization loop, under Spec *)

\* read_rtc has left its loop and holds the raw capture it goes on to decode
LeftLoop == pc \in {"register_b", "bcd"}

\* the raw capture is the content of the six time registers for one clock value
OneClockValue == \E t \in 0..MaxTick : rtc_time = RawOf(ClockAt(t), regs[RegStatusB])

\* C1: the six raw fields read_rtc goes on to decode are the register values of one
\* single clock value, the clock changing the registers only while the
\* update-in-progress flag is set
C1_TornReadFreedom == LeftLoop => OneClockValue

\* C2: when read_rtc leaves the stabilization loop to decode, the last two raw captures
\* agree on all seven compared fields
C2_DoubleReadAgreement == LeftLoop => ~Differs

\* C3: once two consecutive raw captures agree on all seven fields read_rtc leaves the
\* loop: from the comparison of an agreeing pair it goes on to read register 0x0B and
\* makes no further capture pass
C3_TerminatesOnAgreement ==
    [][(pc = "compare" /\ ~Differs) => pc' \in {"compare", "register_b"}]_vars

----------------------------------------------------------------------------
(* Properties of the conversion, under SpecDecode: the registers keep the   *)
(* raw bytes that were captured, so the result is compared with them        *)

\* read_rtc has returned or panicked
Ended == pc \in {"done", "panicked"}

\* the format flags as read_rtc read them
BcdMode == (register_b \div BinaryMode) % 2 = 0
TwelveHourMode == (register_b \div Mode24) % 2 = 0

\* the decoder's formula of the claims, (raw & 0x0F) + (raw div 16) * 10
Decoded(raw) == (raw % 16) + (raw \div 16) * 10

\* reference year r and two-digit year y: the century of r, advanced when that falls before r
Fallback(r, y) ==
    LET base == (r \div 100) * 100
    IN  IF base + y < r THEN base + y + 100 ELSE base + y

\* C4: with the century register strategy read_rtc returns year y + c * 100 for every
\* two-digit year y and century c in 0..99
C4_CenturyYear ==
    (Ended /\ century_handler.kind = "CenturyRegister") =>
        \A y \in 0..99 :
            regs[RegYear] = Stored(y, register_b) =>
                \A c \in 0..99 :
                    regs[CenturyReg] = Stored(c, register_b) =>
                        pc = "done" /\ rtc_time.year = y + c * 100

\* C5: with CurrentYear(R) read_rtc returns base + y, plus 100 exactly when
\* base + y < R, where base = (R div 100) * 100 and y is the two-digit year;
\* R = 2019, y = 19 gives 2019; R = 2019, y = 95 gives 2095; R = 2099, y = 3 gives 2103
C5_CurrentYearFallback ==
    (pc = "done" /\ century_handler.kind = "CurrentYear") =>
        /\ \A y \in 0..MaxTwoDigit :
              regs[RegYear] = Stored(y, register_b) =>
                  rtc_time.year = Fallback(century_handler.arg, y)
        /\ (century_handler.arg = 2019 /\ regs[RegYear] = Stored(19, register_b))
              => rtc_time.year = 2019
        /\ (century_handler.arg = 2019 /\ regs[RegYear] = Stored(95, register_b))
              => rtc_time.year = 2095
        /\ (century_handler.arg = 2099 /\ regs[RegYear] = Stored(3, register_b))
              => rtc_time.year = 2103

C5_Witness ==
    /\ pc = "done"
    /\ century_handler = CurrentYear(2099)
    /\ regs[RegYear] = Stored(3, register_b)
    /\ rtc_time.year = 2103

\* C6: read_rtc returns the hour on a 24-hour clock: for every hour of the day, as
\* the chip stores it in 12-hour or 24-hour mode and in BCD or binary, the returned
\* hour is that hour (12 AM -> 0, 12 PM -> 12, h PM -> h + 12)
C6_Hour24 ==
    pc = "done" =>
        \A h \in 0..23 :
            regs[RegHour] = StoredHour(h, register_b) => rtc_time.hour = h

\* what the hour byte raw is after the BCD step, and after the 12-hour step
HourAfterBcd(raw) ==
    IF BcdMode THEN Decoded(raw % 128) + (raw \div 128) * 128 ELSE raw
HourAfter12(raw) ==
    IF TwelveHourMode /\ HourAfterBcd(raw) >= 128
    THEN ((HourAfterBcd(raw) % 128) + 12) % 24
    ELSE HourAfterBcd(raw)

BcdFields == {"second", "minute", "day", "month", "year"}

\* C8: decoding the BCD byte of every v in 0..99 gives back v; read_rtc applies the
\* decoding to second, minute, day, month, year (and the century under the century
\* register strategy) exactly when bit 0x04 of register 0x0B is clear, and keeps the
\* raw values when it is set
C8_BcdRoundTrip ==
    pc \in {"hour12", "fullyear"} =>
        /\ \A f \in BcdFields :
              rtc_time[f] = IF BcdMode THEN Decoded(regs[RegAt(f)]) ELSE regs[RegAt(f)]
        /\ century_handler.kind = "CenturyRegister" =>
              century = IF BcdMode THEN Decoded(regs[CenturyReg]) ELSE regs[CenturyReg]
        /\ BcdMode =>
              \A f \in BcdFields : \A v \in 0..MaxTwoDigit :
                  regs[RegAt(f)] = ToBcd(v) => rtc_time[f] = v

C8_Witness ==
    /\ pc = "hour12"
    /\ BcdMode
    /\ regs[RegSecond] = ToBcd(59)
    /\ rtc_time.second = 59

----------------------------------------------------------------------------
(* Properties of the RTCDateTime methods, under SpecDate *)

\* the day count of a month in the Gregorian calendar
GregorianDays(y, mo) ==
    IF mo = 2 THEN (IF (y % 4 = 0 /\ y % 100 # 0) \/ y % 400 = 0 THEN 29 ELSE 28)
    ELSE IF mo \in {4, 6, 9, 11} THEN 30
    ELSE 31

\* every field of d is in its range
InRange(d) ==
    /\ d.month \in 1..12
    /\ d.hour <= 23
    /\ d.minute <= 59
    /\ d.second <= 59
    /\ d.day \in 1..GregorianDays(d.year, d.month)

\* C9: is_valid returns true exactly when month is in 1..12, hour <= 23,
\* minute <= 59, second <= 59 and 1 <= day <= the Gregorian day count of the month;
\* it accepts the last day of every month
C9_IsValidGregorian == valid # << >> => (valid[1] <=> InRange(datetime))

\* C10: from_tuple never returns a DateTime with an out-of-range field: it returns
\* None for such input, and the fields of a Some(d) it returns are the six inputs
\* unchanged, so that as_tuple(d) is the input tuple
C10_RejectNotCoerce ==
    /\ option # << >> =>
          /\ ~InRange(datetime) => option[1] = None
          /\ option[1] # None => option[1] = Some(datetime)
    /\ tuple # << >> =>
          tuple[1] = << datetime.year, datetime.month, datetime.day,
                        datetime.hour, datetime.minute, datetime.second >>

----------------------------------------------------------------------------
(* Properties of wait_for_update_then_read_rtc, under Spec *)

\* the latest register access was a read of register 0x0A that returned bit 0x80 set
PolledFlagSet(l) ==
    /\ Len(l) = 2
    /\ l[1] = AddressWrite(RegStatusA)
    /\ l[2].port = "data"
    /\ l[2].dir = "read"
    /\ BitAnd(l[2].val, UpdateInProgress) # 0

\* C11: wait_for_update_then_read_rtc reads no register but 0x0A while it waits; it
\* leaves the wait, and enters read_rtc, only with a read of register 0x0A that
\* returned bit 0x80 set; and it is past the wait only when the hardware has started
\* an update, so it never returns if the hardware never starts one
C11_WaitForUpdate ==
    [][op' = "wait_for_update_then_read_rtc" =>
          /\ pc' = "wait" =>
                /\ \A r \in DOMAIN nxfer' : r # RegStatusA => nxfer'[r] = 0
                /\ log' # << >> => log'[1] = AddressWrite(RegStatusA)
          /\ (pc = "wait" /\ pc' # "wait") => PolledFlagSet(log')
          /\ pc' # "wait" => (tick' > 0 \/ Updating')]_vars

C11_Witness ==
    /\ op = "wait_for_update_then_read_rtc"
    /\ pc = "done"
    /\ tick > 0

----------------------------------------------------------------------------
(* Properties of the register access, under SpecPort *)

\* C12: every register access is a write of its register to the address port
\* followed by one data-port transfer: before a data-port transfer the latest
\* transfer is the address-port write of the register the access is for; read(reg)
\* makes exactly the transfers address write of reg, data read, and returns the byte
\* read; write(reg, val) makes exactly address write of reg, data write of val
C12_AddressThenTransfer ==
    /\ Len(log) <= 2
    /\ io = "data" => log = << AddressWrite(RegAt(pc)) >>
    /\ Len(log) = 2 =>
          /\ log[1] = AddressWrite(addr)
          /\ log[2].port = "data"
    /\ (op = "read" /\ pc = "read" /\ io = "addr") => log = << >>
    /\ (op = "read" /\ pc = "done") =>
          log = << AddressWrite(reg), DataRead(ret[1]) >>
    /\ (op = "write" /\ pc = "write" /\ io = "addr") => log = << >>
    /\ (op = "write" /\ pc = "done") =>
          log = << AddressWrite(reg), DataWrite(val) >>

C12_Witness ==
    /\ op = "write"
    /\ pc = "done"
    /\ reg = CenturyReg
    /\ log = << AddressWrite(CenturyReg), DataWrite(255) >>
    /\ regs[CenturyReg] = 255

\* the loop of read_all or write_all has visited exactly the addresses below i, each
\* with one data-port transfer, and is at address i
VisitedBelow ==
    /\ i \in 0..NumRegs
    /\ pc = (IF i < NumRegs THEN op ELSE "done")
    /\ \A r \in DOMAIN nxfer : nxfer[r] = (IF r < i THEN 1 ELSE 0)
    /\ io = "data" => log = << AddressWrite(i) >>

\* a second register and a minute register that belong to no single clock value:
\* the second of the start value with the minute of the value two updates later
TornSecondMinute(s, m) ==
    /\ s = RegValue(RegSecond, ClockAt(0), regs[RegStatusB])
    /\ m = RegValue(RegMinute, ClockAt(2), regs[RegStatusB])

\* C13: read_all and write_all visit the addresses 0..127 in ascending order, each
\* once, with one address-port write and one data-port transfer per address;
\* read_all stores the byte read for address i in output[i] and leaves the elements
\* from i on as they were, write_all writes input[i] to register i; and during
\* read_all the bank never holds the torn second and minute of TornSecondMinute,
\* which the array read_all returns can hold
C13_BulkAccess ==
    [][/\ op' \in {"read_all", "write_all"} => VisitedBelow'
       /\ (op = "read_all" /\ i' = i + 1) =>
             /\ log' = << AddressWrite(i), DataRead(regs[i]) >>
             /\ output' = [output EXCEPT ![i + 1] = regs[i]]
             /\ regs' = regs
       /\ (op = "write_all" /\ i' = i + 1) =>
             /\ log' = << AddressWrite(i), DataWrite(input[i + 1]) >>
             /\ regs' = [regs EXCEPT ![i] = input[i + 1]]
             /\ input' = input
       /\ op' = "read_all" =>
             /\ \A k \in i'..(NumRegs - 1) : output'[k + 1] = 0
             /\ ~TornSecondMinute(regs[RegSecond], regs[RegMinute])]_vars

C13_Witness ==
    /\ op = "read_all"
    /\ pc = "done"
    /\ i = NumRegs
    /\ TornSecondMinute(output[RegSecond + 1], output[RegMinute + 1])

----------------------------------------------------------------------------
(* Properties of the register reads of read_rtc, under Spec *)

\* the read_into_rtc call of line 171 has returned and the loop has not begun
FirstCaptureOver == ~stabilizing /\ pc \in {"century", "save"}

\* every field of rtc_time is a value its register holds for some clock value
FromRegisters ==
    \A f \in TimeFields : \E t \in 0..MaxTick :
        rtc_time[f] = RegValue(RegAt(f), ClockAt(t), regs[RegStatusB])

\* C14: when the first capture of a read_rtc call is over and no poll of the call has
\* found the update-in-progress flag set, each of the six time registers has been
\* read exactly once and rtc_time holds register values, not the zeros it started with
C14_FlagNeverSet ==
    (FirstCaptureOver /\ ~flag_seen) =>
        /\ \A r \in TimeRegs : nxfer[r] = 1
        /\ FromRegisters

\* the positions of read_rtc after its read of register 0x0B: the conversions, the
\* return and the panic
AfterRegisterB == {"bcd", "hour12", "fullyear", "done", "panicked"}

\* C15: read_rtc reads register 0x0B exactly once: not before it has left the
\* stabilization loop, in the step from the loop's exit to the first conversion, which
\* finds rtc_time as the loop left it; once it is read no time register and no
\* century register is read again
C15_FormatFlagsOrdering ==
    [][/\ nxfer'[RegStatusB] = (IF pc' \in AfterRegisterB THEN 1 ELSE 0)
       /\ nxfer'[RegStatusB] # nxfer[RegStatusB] =>
             /\ pc = "register_b"
             /\ pc' = "bcd"
             /\ rtc_time' = rtc_time
             /\ log' = << AddressWrite(RegStatusB), DataRead(regs[RegStatusB]) >>
       /\ nxfer[RegStatusB] = 1 =>
             \A r \in ClockRegs : nxfer'[r] = nxfer[r]]_vars

C15_Witness ==
    /\ op = "read_rtc"
    /\ pc = "done"
    /\ nxfer[RegStatusB] = 1
    /\ nxfer[RegSecond] >= 1

----------------------------------------------------------------------------
(* Properties of the century read, under SpecCentury *)

\* the positions inside the stabilization loop
LoopPcs == {"save", "flag", "compare"} \cup TimeFields

\* read_rtc is past the statement that reads the century register
PastCenturyRead == stabilizing \/ pc \in {"save", "compare", "register_b"} \cup AfterRegisterB

\* the registers read_rtc reads under either strategy
AlwaysRead == TimeRegs \cup {RegStatusA, RegStatusB}

\* how often each register outside AlwaysRead has been read
CenturyReadCount ==
    \A r \in DOMAIN nxfer \ AlwaysRead :
        nxfer[r] = (IF /\ century_handler = CenturyRegister(r)
                       /\ op # "none"
                       /\ PastCenturyRead
                    THEN 1 ELSE 0)

\* C16: with CenturyRegister(reg) read_rtc reads reg exactly once, in the step
\* before the stabilization loop begins; no step inside the loop changes century, so
\* at every comparison last_century equals century whatever the century register
\* holds by then; with CurrentYear no register but the six time registers, 0x0A and
\* 0x0B is read
C16_OneShotCentury ==
    [][/\ CenturyReadCount'
       /\ \A r \in DOMAIN nxfer \ AlwaysRead :
             nxfer'[r] > nxfer[r] => (pc = "century" /\ ~stabilizing /\ pc' = "save")
       /\ (stabilizing /\ pc \in LoopPcs) => century' = century
       /\ pc' = "compare" => last_century' = century']_vars

C16_Witness ==
    /\ century_handler = CenturyRegister(CenturyReg)
    /\ pc = "compare"
    /\ century = RegValue(CenturyReg, ClockAt(0), regs[RegStatusB])
    /\ regs[CenturyReg] = RegValue(CenturyReg, ClockAt(1), regs[RegStatusB])
    /\ regs[CenturyReg] # century
    /\ ~Differs

----------------------------------------------------------------------------
(* Properties of the current-year strategy, under SpecDecode *)

\* read_rtc(CurrentYear(2019)) has returned and the year register held two-digit year 05
Example2019Year05 ==
    /\ pc = "done"
    /\ century_handler = CurrentYear(2019)
    /\ regs[RegYear] = Stored(5, register_b)

\* C17 as stated: with reference year 2019 and two-digit year 05 read_rtc returns
\* year 2005, the tentative year being left uncorrected
C17_StatedExample == Example2019Year05 => rtc_time.year = 2005

\* C17 amended: with reference year 2019 and two-digit year 05 read_rtc returns year
\* 2105: the tentative year 2005 is before 2019, so the century is advanced
C17_ExampleAdvanced == Example2019Year05 => rtc_time.year = 2105

C17_Witness == Example2019Year05 /\ rtc_time.year = 2105

\* C18: with CurrentYear(R) the year read_rtc returns is never before R, and for a
\* two-digit year y in 0..99 it is the one year Y in R..R+99 with Y mod 100 = y
C18_YearWindow ==
    (pc = "done" /\ century_handler.kind = "CurrentYear") =>
        LET R == century_handler.arg
            Y == rtc_time.year
        IN  /\ Y >= R
            /\ \A y \in 0..99 :
                  regs[RegYear] = Stored(y, register_b) =>
                      /\ Y \in R..(R + 99)
                      /\ Y % 100 = y
                      /\ \A Z \in R..(R + 99) : Z % 100 = y => Z = Y

C18_Witness ==
    /\ pc = "done"
    /\ century_handler = CurrentYear(1999)
    /\ regs[RegYear] = 0
    /\ rtc_time.year = 2000

----------------------------------------------------------------------------
(* Properties of the sentinels MIN and MAX, under SpecDate *)

\* C19: is_valid(MIN) and is_valid(MAX) are true, and every value for which is_valid
\* is true is neither below MIN nor above MAX in the order of cmp
C19_SentinelsConsistent ==
    /\ (valid # << >> /\ datetime \in {MIN, MAX}) => valid[1]
    /\ (valid # << >> /\ ordering # << >>) =>
          (valid[1] => (ordering[1] # "Greater" /\ ordering[2] # "Greater"))

----------------------------------------------------------------------------
(* Properties of the methods as readers and writers of the chip, under SpecPort *)

ReadingOps == {"read", "read_all", "get_update_in_progress_flag", "read_rtc",
               "wait_for_update_then_read_rtc"}

\* a step of the driver: every step of a method moves pc or io, the clock moves neither
DriverStep == << pc, io >>' # << pc, io >>

\* C20: a step of read, read_all, get_update_in_progress_flag, read_rtc or
\* wait_for_update_then_read_rtc changes no register and makes no write to the data
\* port; a driver step that changes a register is a data-port write of write or
\* write_all, and it changes the selected register only, for write the register reg
C20_ReadersDoNotWrite ==
    [][DriverStep =>
          /\ op' \in ReadingOps =>
                /\ regs' = regs
                /\ \A k \in 1..Len(log') :
                      log'[k].port = "data" => log'[k].dir = "read"
          /\ regs' # regs =>
                /\ op \in {"write", "write_all"}
                /\ log' = << AddressWrite(addr), DataWrite(regs'[addr]) >>
          /\ \A r \in DOMAIN regs : r # addr => regs'[r] = regs[r]
          /\ (op = "write" /\ pc' = "done") =>
                /\ addr = reg
                /\ regs' = [regs EXCEPT ![reg] = val]]_vars

C20_Witness ==
    /\ op = "write"
    /\ pc = "done"
    /\ reg = RegHour
    /\ val = 8
    /\ tick = 0
    /\ regs = [PortBank(Mode24) EXCEPT ![RegHour] = 8]

====
